---- MODULE Spec2Model ----
(***************************************************************************)
(* EnvironmentQueueConsumer: the per-environment dispatcher that pulls     *)
(* task-run messages from the queue (marqs), locks the run, creates an     *)
(* attempt and sends it to the remote worker, and the handlers that react  *)
(* to the worker's messages.  One step of a handler runs from one await to *)
(* the next: the awaited operation takes effect and the synchronous code   *)
(* that follows it runs, up to the next await.                             *)
(*                                                                         *)
(* There is no clock.  A Date the code stores is "date".  Whether a time   *)
(* has come is decided at the step that asks: #doWork is told whether more *)
(* than traceTimeoutSeconds have passed since _lastNewTrace, and a dequeue *)
(* is told which delayed or in-flight messages have become visible again   *)
(* (their retry time reached, their visibility timeout expired).           *)
(***************************************************************************)
EXTENDS Integers, Sequences, FiniteSets, TLC

\* ------------------------------------------------------------------ bounds
MaxStops == 1
\* The completions a worker sends on a connection that stays open.
MaxCompletions == 2
\* The completions a worker sends on a connection that can be closed.
MaxCompletionsStopped == 1
MaxAttempts == 2
\* The maximumItemsPerTrace of the consumer whose spans are recorded.
MaxItemsTraced == 1
\* options.maximumItemsPerTrace, 1_000 unless given; the model runs short trace windows.
maximumItemsPerTrace == 2
\* How far below zero the countdown is followed: an iteration that would take it further
\* does not end.
MaxOverrun == 2
\* How many calls of taskRunCompleted and taskHeartbeat are past their first await at a time.
MaxHandlers == 1
\* Events that other callers of the event repository add to its batch.
MaxOtherEvents == 2

\* --------------------------------------------------------------- constants
NULL == "null"
NoCount == 0 - 1000
defaultHeartbeatSeconds == 60
VisibilityTimeoutSeconds == 300
ShortDelay == 100
LongDelay == 1000

\* ------------------------------------------------------------ static rows
\* Version strings as sequences of UTF-16 code units ("0" = 48, "." = 46).
V20240101_1 == <<50, 48, 50, 52, 48, 49, 48, 49, 46, 49>>
V20240101_2 == <<50, 48, 50, 52, 48, 49, 48, 49, 46, 50>>
V20240101_10 == <<50, 48, 50, 52, 48, 49, 48, 49, 46, 49, 48>>

\* BackgroundWorkerTask.retryConfig: null, or a stored configuration.
NoRetryConfig == [present |-> FALSE, maxAttempts |-> NoCount]
RetryConfig(maxAttempts) == [present |-> TRUE, maxAttempts |-> maxAttempts]

\* BackgroundWorkerTask rows.
TaskRows ==
    { [id |-> "t1a", slug |-> "a", workerId |-> "w1", retryConfig |-> NoRetryConfig],
      [id |-> "t2a", slug |-> "a", workerId |-> "w2", retryConfig |-> RetryConfig(3)],
      [id |-> "t2b", slug |-> "b", workerId |-> "w2", retryConfig |-> RetryConfig(3)],
      [id |-> "t3a", slug |-> "a", workerId |-> "w3", retryConfig |-> NoRetryConfig] }

\* BackgroundWorker rows of this environment, with their tasks.
WorkerRows ==
    { [id |-> "w1", friendlyId |-> "fw1", version |-> V20240101_1,
       tasks |-> {t \in TaskRows : t.workerId = "w1"}],
      [id |-> "w2", friendlyId |-> "fw2", version |-> V20240101_2,
       tasks |-> {t \in TaskRows : t.workerId = "w2"}],
      [id |-> "w3", friendlyId |-> "fw3", version |-> V20240101_10,
       tasks |-> {t \in TaskRows : t.workerId = "w3"}] }

WorkerIds == {w.id : w \in WorkerRows}
\* Friendly ids a worker may announce; "fwX" names no worker of the environment.
FriendlyIds == {"fw1", "fw2", "fwX"}
\* The same with the worker of the tenth version of the day.
FriendlyIdsOfTheDay == FriendlyIds \cup {"fw3"}
WorkerRow(id) == CHOOSE w \in WorkerRows : w.id = id

\* TaskQueue rows of this environment, by name.
TaskQueueRows == { [id |-> "q1", friendlyId |-> "fq1", name |-> "main"] }

Runs == {"r1"}
AttemptIds == 1..(MaxAttempts + 1)

\* What a message and its run look like when the dispatcher is constructed.
Profiles ==
    { [type |-> "EXECUTE", exists |-> TRUE, lockedToVersionId |-> NULL,
       taskIdentifier |-> "a", queue |-> "main"],
      [type |-> "EXECUTE", exists |-> TRUE, lockedToVersionId |-> "w1",
       taskIdentifier |-> "a", queue |-> "main"],
      [type |-> "EXECUTE", exists |-> TRUE, lockedToVersionId |-> NULL,
       taskIdentifier |-> "b", queue |-> "main"],
      [type |-> "UNKNOWN", exists |-> TRUE, lockedToVersionId |-> NULL,
       taskIdentifier |-> "a", queue |-> "main"],
      [type |-> "EXECUTE", exists |-> FALSE, lockedToVersionId |-> NULL,
       taskIdentifier |-> "a", queue |-> "main"],
      [type |-> "EXECUTE", exists |-> TRUE, lockedToVersionId |-> NULL,
       taskIdentifier |-> "a", queue |-> "gone"] }

VARIABLES
    options,                \* _options
    limits,                 \* how many completions the worker of this behaviour sends
    backgroundWorkers,      \* _backgroundWorkers: worker ids in insertion order
    enabled,                \* _enabled
    perTraceCountdown,      \* _perTraceCountdown
    lastNewTrace,           \* _lastNewTrace
    currentSpan,            \* _currentSpan / _currentSpanContext: NULL when undefined
    spanException,          \* whether an exception was recorded on the current span
    taskFailures,           \* _taskFailures
    taskSuccesses,          \* _taskSuccesses
    endSpanInNextIteration, \* _endSpanInNextIteration
    loops,                  \* the #doWork chains: position and locals of each
    used,                   \* how many stops and completions have happened
    runs,                   \* TaskRun rows
    attempts,               \* TaskRunAttempt rows
    nextAttemptId,          \* the id the next created attempt gets
    queue,                  \* the queue's messages
    sent,                   \* EXECUTE_RUNS payloads the worker received
    handlers,               \* calls of taskRunCompleted and taskHeartbeat past their first await
    tracer                  \* the tracer's spans: open ones, the last ended one

window == <<perTraceCountdown, lastNewTrace, currentSpan, spanException,
            taskFailures, taskSuccesses, endSpanInNextIteration>>
store == <<runs, attempts, nextAttemptId>>
vars == <<options, limits, handlers, backgroundWorkers, enabled, window, loops, used, store, queue, sent, tracer>>

\* Each stop followed by a register can start one more chain.
Loops == 1..(MaxStops + 1)

\* ---------------------------------------------------------- pure functions
\* JavaScript's a > b on strings: code units compared left to right.
RECURSIVE StringGreater(_, _)
StringGreater(a, b) ==
    IF a = <<>> THEN FALSE
    ELSE IF b = <<>> THEN TRUE
    ELSE IF Head(a) # Head(b) THEN Head(a) > Head(b)
    ELSE StringGreater(Tail(a), Tail(b))

\* A callback that keeps the later of the two.
LatestOfTwo_KeepsLater(acc, curr) == IF acc = curr THEN acc ELSE curr

\* The callback of workers.reduce in #getLatestBackgroundWorker.
LatestOfTwo(acc, curr) ==
    IF StringGreater(WorkerRow(acc).version, WorkerRow(curr).version) THEN acc ELSE curr

RECURSIVE Reduce(_, _)
Reduce(acc, rest) ==
    IF rest = <<>> THEN acc ELSE Reduce(LatestOfTwo(acc, Head(rest)), Tail(rest))

\* #getLatestBackgroundWorker over a registry; NULL for undefined.
getLatestBackgroundWorker(workers) ==
    IF Len(workers) = 0 THEN NULL ELSE Reduce(Head(workers), Tail(workers))

\* Map.get
MapGet(workers, id) ==
    IF \E i \in 1..Len(workers) : workers[i] = id THEN id ELSE NULL

\* Map.set keeps the position of a key that is already there.
MapSet(workers, id) ==
    IF \E i \in 1..Len(workers) : workers[i] = id THEN workers ELSE Append(workers, id)

\* A selection that ignores the version a run is pinned to.
SelectWorker_IgnoringPin(run, workers) == getLatestBackgroundWorker(workers)

\* The worker an iteration picks for a run (lines 300-302).
SelectWorker(run, workers) ==
    IF run.lockedToVersionId # NULL
    THEN MapGet(workers, run.lockedToVersionId)
    ELSE getLatestBackgroundWorker(workers)

\* backgroundWorker.tasks.find((task) => task.slug === taskIdentifier); NULL for undefined.
FindTask(worker, taskIdentifier) ==
    LET found == {t \in WorkerRow(worker).tasks : t.slug = taskIdentifier}
    IN IF found = {} THEN NULL ELSE (CHOOSE t \in found : TRUE).id

\* A parse that accepts every message body.
ParseOk_AcceptsAll(data) == data.type = data.type

\* MessageBody.safeParse(message.data).success
ParseOk(data) == data.type = "EXECUTE"

\* The run's last attempt by descending number, take 1: its number, 0 when none.
LastAttemptNumber(atts, r) ==
    LET ns == {a.number : a \in {x \in atts : x.taskRunId = r}}
    IN IF ns = {} THEN 0 ELSE CHOOSE n \in ns : \A k \in ns : k <= n

\* number: lockedTaskRun.attempts[0] ? lockedTaskRun.attempts[0].number + 1 : 1
NextAttemptNumber(last) == IF last # 0 THEN last + 1 ELSE 1

\* this._perTraceCountdown - 1 (line 251).
Decrement(c) == c - 1

\* ------------------------------------------------------- the queue (marqs)
\* A message is visible, delayed until the timestamp of its nack, in flight for the
\* seconds of its visibility timeout, or gone.  A delayed message is visible again
\* once its time is reached, a message in flight once its timeout has expired.
Visible(q, m) == q[m].st = "visible"
MayBeVisible(q, m) == q[m].st \in {"visible", "delayed", "inflight"}
qDequeue(q, m) ==
    [q EXCEPT ![m].st = "inflight", ![m].at = NULL, ![m].timeout = VisibilityTimeoutSeconds]
qAck(q, m) == [q EXCEPT ![m].st = "gone", ![m].at = NULL, ![m].timeout = 0]
\* nackMessage(id, retryAt): without retryAt the message is visible again at once.
qNack(q, m, ts) ==
    IF q[m].st = "gone" THEN q
    ELSE [q EXCEPT ![m].st = IF ts = NULL THEN "visible" ELSE "delayed",
                   ![m].at = ts, ![m].timeout = 0]
qHeartbeat(q, m, seconds) ==
    IF q[m].st = "inflight" THEN [q EXCEPT ![m].timeout = seconds] ELSE q

\* ------------------------------------------------------------------- Init
NoLoop ==
    [pc |-> "none", msg |-> NULL, worker |-> NULL, task |-> NULL, locked |-> FALSE,
     lastNumber |-> 0, attempt |-> 0, delay |-> 0, outcome |-> "none", qop |-> "none",
     acted |-> 0, returned |-> FALSE]

\* The span that ended last, before any span has ended.
NoSpan == [successes |-> NoCount, failures |-> NoCount, dispatches |-> 0, completions |-> 0]

\* The tracer: how many spans are started and not ended, the attributes the last ended
\* span was given, and what the current and the last ended span covered (the sends and
\* the calls of taskRunCompleted while it was the current span); and the events the
\* batch of the event repository, in the order they were added.
NoTracer ==
    [recording |-> FALSE, open |-> 0, dispatches |-> 0, completions |-> 0, ended |-> NoSpan,
     recordingEvents |-> FALSE, events |-> <<>>]

\* A rollover that leaves the previous span open.
EndSpan_LeavesOpen(t, failures, successes) ==
    IF failures = successes THEN t ELSE t

\* this._currentSpan.setAttribute(...) twice, this._currentSpan.end() (lines 220-225).
EndSpan(t, failures, successes) ==
    IF ~t.recording THEN t ELSE
    [t EXCEPT !.open = @ - 1,
              !.ended = [successes |-> successes, failures |-> failures,
                         dispatches |-> t.dispatches, completions |-> t.completions]]

\* tracer.startSpan (lines 228-237).
StartSpan(t) ==
    IF ~t.recording THEN t
    ELSE [t EXCEPT !.open = @ + 1, !.dispatches = 0, !.completions = 0]

\* One more send, or one more call of taskRunCompleted, while the span is the current one.
Covers(t, what) == IF ~t.recording THEN t ELSE [t EXCEPT ![what] = @ + 1]

\* The state after construction, for the options given, a tracer that records its spans
\* or not and an event repository that records its events or not, with a worker that
\* sends so many completions.
Constructed(maxItems, recording, recordingEvents, completions) ==
    /\ options = [maximumItemsPerTrace |-> maxItems]
    /\ limits = [completions |-> completions]
    /\ tracer = [NoTracer EXCEPT !.recording = recording,
                                 !.recordingEvents = recordingEvents]
    /\ backgroundWorkers = <<>>
    /\ handlers = {}
    /\ enabled = FALSE
    /\ perTraceCountdown = NoCount
    /\ lastNewTrace = "undefined"
    /\ currentSpan = NULL
    /\ spanException = FALSE
    /\ taskFailures = 0
    /\ taskSuccesses = 0
    /\ endSpanInNextIteration = FALSE
    /\ loops = [l \in Loops |-> NoLoop]
    /\ used = [stops |-> 0, completions |-> 0]
    /\ \E prof \in [Runs -> Profiles] :
        /\ runs = [r \in Runs |->
                     [exists |-> prof[r].exists, lockedAt |-> NULL, lockedById |-> NULL,
                      lockedToVersionId |-> prof[r].lockedToVersionId,
                      taskIdentifier |-> prof[r].taskIdentifier,
                      queue |-> prof[r].queue]]
        /\ queue = [r \in Runs |->
                     [st |-> "visible", at |-> NULL, timeout |-> 0,
                      data |-> [type |-> prof[r].type,
                                taskIdentifier |-> prof[r].taskIdentifier]]]
    /\ attempts = {}
    /\ nextAttemptId = 1
    /\ sent = {}

Init == Constructed(maximumItemsPerTrace, FALSE, FALSE, MaxCompletionsStopped)

\* ------------------------------------------------------ the dispatch loop
Attempt(id) == CHOOSE a \in attempts : a.id = id

\* Chains whose #doWorkInternal has returned and whose line 251 has not run yet.
Returned == {k \in Loops : loops[k].returned}

\* The end of an iteration that resumes: setTimeout(() => this.#doWork(), delay), and
\* #doWorkInternal returns; #doWork continues after its await (line 250) in a later
\* microtask.
Resume(l, delay, outcome, op) ==
    /\ perTraceCountdown - Cardinality(Returned) > 0 - MaxOverrun
    /\ loops' = [loops EXCEPT ![l].pc = "timer", ![l].delay = delay,
                              ![l].outcome = outcome, ![l].qop = op,
                              ![l].acted = IF op = "none" THEN @ ELSE @ + 1,
                              ![l].worker = NULL, ![l].task = NULL, ![l].lastNumber = 0,
                              ![l].returned = TRUE]
    /\ UNCHANGED window

\* #doWork after await this.#doWorkInternal() (lines 250-252).
afterDoWorkInternal(l) ==
    /\ loops[l].returned
    /\ loops' = [loops EXCEPT ![l].returned = FALSE]
    /\ perTraceCountdown' = Decrement(perTraceCountdown)
    /\ UNCHANGED <<lastNewTrace, currentSpan, spanException, taskFailures,
                   taskSuccesses, endSpanInNextIteration>>
    /\ UNCHANGED <<backgroundWorkers, options, limits, handlers, enabled, tracer, used, store,
                   queue, sent>>

\* Jump to the next await of the iteration.
Goto(l, pc, outcome) ==
    loops' = [loops EXCEPT ![l].pc = pc, ![l].outcome = outcome]

\* A #doWork whose check leaves out _endSpanInNextIteration.
doWork_IgnoresForcedRollover(l, isEnabled, countdown, last, failures, successes, elapsed) ==
    IF ~isEnabled
    THEN /\ loops' = [loops EXCEPT ![l] = NoLoop]
         /\ perTraceCountdown' = countdown
         /\ lastNewTrace' = last
         /\ taskFailures' = failures
         /\ taskSuccesses' = successes
         /\ UNCHANGED <<currentSpan, spanException, endSpanInNextIteration, tracer>>
    ELSE LET expired ==
                 \/ countdown = 0
                 \/ elapsed
                 \/ currentSpan = NULL
         IN /\ perTraceCountdown' = IF expired THEN options.maximumItemsPerTrace ELSE countdown
            /\ lastNewTrace' = IF expired THEN "date" ELSE last
            /\ currentSpan' = IF expired THEN "span" ELSE currentSpan
            /\ tracer' = IF ~expired THEN tracer
                         ELSE IF currentSpan # NULL
                              THEN StartSpan(EndSpan(tracer, failures, successes))
                              ELSE StartSpan(tracer)
            /\ spanException' = IF expired THEN FALSE ELSE spanException
            /\ taskFailures' = IF expired THEN 0 ELSE failures
            /\ taskSuccesses' = IF expired THEN 0 ELSE successes
            /\ endSpanInNextIteration' = IF expired THEN FALSE ELSE endSpanInNextIteration
            /\ loops' = [loops EXCEPT ![l] = [NoLoop EXCEPT !.pc = "dequeue"]]

\* #doWork from its first line to the await of dequeueMessageInEnv (lines 208-266),
\* entered with the given values of the fields #enable may just have written; elapsed
\* is Date.now() - this._lastNewTrace.getTime() > this._options.traceTimeoutSeconds * 1000.
doWork(l, isEnabled, countdown, last, failures, successes, elapsed) ==
    IF ~isEnabled
    THEN /\ loops' = [loops EXCEPT ![l] = NoLoop]
         /\ perTraceCountdown' = countdown
         /\ lastNewTrace' = last
         /\ taskFailures' = failures
         /\ taskSuccesses' = successes
         /\ UNCHANGED <<currentSpan, spanException, endSpanInNextIteration, tracer>>
    ELSE LET expired ==
                 \/ countdown = 0
                 \/ elapsed
                 \/ currentSpan = NULL
                 \/ endSpanInNextIteration
         IN /\ perTraceCountdown' = IF expired THEN options.maximumItemsPerTrace ELSE countdown
            /\ lastNewTrace' = IF expired THEN "date" ELSE last
            /\ currentSpan' = IF expired THEN "span" ELSE currentSpan
            /\ tracer' = IF ~expired THEN tracer
                         ELSE IF currentSpan # NULL
                              THEN StartSpan(EndSpan(tracer, failures, successes))
                              ELSE StartSpan(tracer)
            /\ spanException' = IF expired THEN FALSE ELSE spanException
            /\ taskFailures' = IF expired THEN 0 ELSE failures
            /\ taskSuccesses' = IF expired THEN 0 ELSE successes
            /\ endSpanInNextIteration' = IF expired THEN FALSE ELSE endSpanInNextIteration
            /\ loops' = [loops EXCEPT ![l] = [NoLoop EXCEPT !.pc = "dequeue"]]

\* A chain slot that holds no chain; a new chain takes the lowest.
Free(l) == loops[l].pc = "none" /\ ~loops[l].returned
FreeSlot(l) == Free(l) /\ \A k \in Loops : k < l => ~Free(k)

\* #enable (lines 194-206).
enable ==
    IF enabled
    THEN UNCHANGED <<enabled, window, tracer, loops>>
    ELSE /\ enabled' = TRUE
         /\ \E l \in Loops :
              /\ FreeSlot(l)
              /\ doWork(l, TRUE, options.maximumItemsPerTrace, "date", 0, 0, FALSE)

\* A register that starts the loop and does not keep the worker.
registerBackgroundWorker_ForgetsWorker(friendlyId) ==
    LET found == {w \in WorkerRows : w.friendlyId = friendlyId}
    IN IF found = {}
       THEN UNCHANGED vars
       ELSE /\ backgroundWorkers' = backgroundWorkers
            /\ enable
            /\ UNCHANGED <<options, limits, handlers, used, store, queue, sent>>

\* A register that starts the loop also when the worker is not found.
registerBackgroundWorker_EnablesUnknown(friendlyId) ==
    LET found == {w \in WorkerRows : w.friendlyId = friendlyId}
    IN /\ backgroundWorkers' = IF found = {} THEN backgroundWorkers
                               ELSE MapSet(backgroundWorkers, (CHOOSE w \in found : TRUE).id)
       /\ enable
       /\ UNCHANGED <<options, limits, handlers, used, store, queue, sent>>

\* registerBackgroundWorker (lines 61-79).
registerBackgroundWorker(friendlyId) ==
    LET found == {w \in WorkerRows : w.friendlyId = friendlyId}
    IN IF found = {}
       THEN UNCHANGED vars
       ELSE /\ backgroundWorkers' = MapSet(backgroundWorkers, (CHOOSE w \in found : TRUE).id)
            /\ enable
            /\ UNCHANGED <<options, limits, handlers, used, store, queue, sent>>

\* stop (lines 190-192).
stop ==
    /\ used.stops < MaxStops
    /\ used' = [used EXCEPT !.stops = @ + 1]
    /\ enabled' = FALSE
    /\ UNCHANGED <<backgroundWorkers, options, limits, handlers, window, tracer, loops, store, queue, sent>>

\* The timer set by setTimeout(() => this.#doWork(), ...) fires: a task of its own, after
\* the microtasks of the iteration that set it.
timerFires(l) ==
    /\ loops[l].pc = "timer"
    /\ ~loops[l].returned
    /\ \E elapsed \in BOOLEAN :
         doWork(l, enabled, perTraceCountdown, lastNewTrace, taskFailures, taskSuccesses,
                elapsed)
    /\ UNCHANGED <<backgroundWorkers, options, limits, handlers, enabled, used, store, queue, sent>>

\* Chains that hold a message and have not created its attempt yet.
Pending == {k \in Loops : loops[k].pc \in {"findRun", "lock", "findQueue", "create"}}

\* await marqs.dequeueMessageInEnv, then the parse (lines 266-286).
dequeueMessage(l) ==
    /\ loops[l].pc = "dequeue"
    /\ \/ /\ \A m \in Runs : ~Visible(queue, m)
          /\ Resume(l, LongDelay, "empty", "none")
          /\ UNCHANGED queue
       \/ /\ nextAttemptId + Cardinality(Pending) <= MaxAttempts
          /\ \E m \in Runs :
               /\ MayBeVisible(queue, m)
               /\ queue' = qDequeue(queue, m)
               /\ loops' = [loops EXCEPT
                              ![l].msg = m,
                              ![l].pc = IF ParseOk(queue[m].data) THEN "findRun" ELSE "ack",
                              ![l].outcome = IF ParseOk(queue[m].data) THEN "none" ELSE "parse"]
          /\ UNCHANGED window
    /\ UNCHANGED <<backgroundWorkers, options, limits, handlers, enabled, tracer, used, store, sent>>

\* await marqs.acknowledgeMessage on the paths that give a message up (lines 282-285,
\* 295-297, 305-307, 322-325, 353-356).
acknowledgeAndResume(l) ==
    /\ loops[l].pc = "ack"
    /\ queue' = qAck(queue, loops[l].msg)
    /\ Resume(l, ShortDelay, loops[l].outcome, "ack")
    /\ UNCHANGED <<backgroundWorkers, options, limits, handlers, enabled, tracer, used, store, sent>>

\* await prisma.taskRun.findUnique, worker and task selection (lines 288-326).
findTaskRun(l) ==
    /\ loops[l].pc = "findRun"
    /\ LET m == loops[l].msg
           w == SelectWorker(runs[m], backgroundWorkers)
           t == FindTask(w, runs[m].taskIdentifier)
       IN IF ~runs[m].exists THEN Goto(l, "ack", "norun")
          ELSE IF w = NULL THEN Goto(l, "ack", "noworker")
          ELSE IF t = NULL
               THEN loops' = [loops EXCEPT ![l].pc = "ack", ![l].outcome = "notask",
                                           ![l].worker = w]
               ELSE loops' = [loops EXCEPT ![l].pc = "lock", ![l].worker = w, ![l].task = t]
    /\ UNCHANGED <<backgroundWorkers, options, limits, handlers, enabled, tracer, window, used, store, queue, sent>>

\* await prisma.taskRun.update: the lock, with the last attempt (lines 328-357).
lockTaskRun(l) ==
    /\ loops[l].pc = "lock"
    /\ LET m == loops[l].msg
       IN IF ~runs[m].exists
          THEN /\ Goto(l, "ack", "lockfail")
               /\ UNCHANGED runs
          ELSE /\ runs' = [runs EXCEPT ![m].lockedAt = "date", ![m].lockedById = loops[l].task]
               /\ loops' = [loops EXCEPT ![l].pc = "findQueue", ![l].locked = TRUE,
                                         ![l].lastNumber = LastAttemptNumber(attempts, m)]
    /\ UNCHANGED <<backgroundWorkers, options, limits, handlers, enabled, tracer, window, used, attempts, nextAttemptId,
                   queue, sent>>

\* await prisma.taskQueue.findUnique, then the abort check (lines 359-374).
findTaskQueue(l) ==
    /\ loops[l].pc = "findQueue"
    /\ LET m == loops[l].msg
           found == {q \in TaskQueueRows : q.name = runs[m].queue}
       IN IF found = {} THEN Goto(l, "nackQueue", "noqueue")
          ELSE IF ~enabled THEN Goto(l, "nackStop", "stopped")
          ELSE Goto(l, "create", "none")
    /\ UNCHANGED <<backgroundWorkers, options, limits, handlers, enabled, tracer, window, used, store, queue, sent>>

\* A missing queue row handled like a poison message: ack, short delay.
nackMissingQueue_Acknowledges(l) ==
    /\ loops[l].pc = "nackQueue"
    /\ queue' = qAck(queue, loops[l].msg)
    /\ Resume(l, ShortDelay, "noqueue", "ack")
    /\ UNCHANGED <<backgroundWorkers, options, limits, handlers, enabled, tracer, used, store, sent>>

\* await marqs.nackMessage when the queue row is missing (lines 366-368).
nackMissingQueue(l) ==
    /\ loops[l].pc = "nackQueue"
    /\ queue' = qNack(queue, loops[l].msg, NULL)
    /\ Resume(l, LongDelay, "noqueue", "nack")
    /\ UNCHANGED <<backgroundWorkers, options, limits, handlers, enabled, tracer, used, store, sent>>

\* A stop nack that sets the timer of a next iteration.
nackStopped_Reschedules(l) ==
    /\ loops[l].pc = "nackStop"
    /\ queue' = qNack(queue, loops[l].msg, NULL)
    /\ Resume(l, ShortDelay, "stopped", "nack")
    /\ UNCHANGED <<backgroundWorkers, options, limits, handlers, enabled, tracer, used, store, sent>>

\* await marqs.nackMessage when the consumer was stopped (lines 372-373): #doWorkInternal
\* returns and sets no timer.
nackStopped(l) ==
    /\ loops[l].pc = "nackStop"
    /\ queue' = qNack(queue, loops[l].msg, NULL)
    /\ perTraceCountdown - Cardinality(Returned) > 0 - MaxOverrun
    /\ loops' = [loops EXCEPT ![l].pc = "none", ![l].qop = "nack", ![l].acted = @ + 1,
                              ![l].returned = TRUE]
    /\ UNCHANGED window
    /\ UNCHANGED <<backgroundWorkers, options, limits, handlers, enabled, tracer, used, store, sent>>

\* await prisma.taskRunAttempt.create, then the execution payload (lines 376-436).
createAttempt(l) ==
    /\ loops[l].pc = "create"
    /\ nextAttemptId <= MaxAttempts
    /\ LET m == loops[l].msg
           q == CHOOSE x \in TaskQueueRows : x.name = runs[m].queue
           t == CHOOSE x \in TaskRows : x.id = loops[l].task
       IN attempts' = attempts \cup
            { [id |-> nextAttemptId, taskRunId |-> m,
               number |-> NextAttemptNumber(loops[l].lastNumber),
               status |-> "EXECUTING", backgroundWorkerId |-> t.workerId,
               backgroundWorkerTaskId |-> t.id, queueId |-> q.id, acks |-> 0] }
    /\ nextAttemptId' = nextAttemptId + 1
    /\ loops' = [loops EXCEPT ![l].pc = "send", ![l].attempt = nextAttemptId]
    /\ UNCHANGED <<backgroundWorkers, options, limits, handlers, enabled, tracer, window, used, runs, queue, sent>>

\* An identifier as it is put into a message: the column it is read from, and the row.
Column(name, row) == [column |-> name, row |-> row]

\* The execution descriptor (lines 389-431): its identifiers and the attempt's number.
Execution(l) ==
    LET a == Attempt(loops[l].attempt)
        t == CHOOSE x \in TaskRows : x.id = loops[l].task
        q == CHOOSE x \in TaskQueueRows : x.name = runs[loops[l].msg].queue
    IN [task |-> [id |-> Column("slug", t.id)],
        attempt |-> [id |-> Column("friendlyId", a.id),
                     number |-> a.number,
                     backgroundWorkerId |-> Column("id", loops[l].worker),
                     backgroundWorkerTaskId |-> Column("id", t.id)],
        run |-> [id |-> Column("friendlyId", loops[l].msg)],
        queue |-> [id |-> Column("friendlyId", q.id)],
        environment |-> [id |-> Column("id", "env")],
        organization |-> [id |-> Column("id", "organization")],
        project |-> [id |-> Column("id", "project")]]

\* The BACKGROUND_WORKER_MESSAGE / EXECUTE_RUNS message (lines 389-446): the envelope's
\* backgroundWorkerId and the execution descriptor are what the worker receives; attemptId,
\* number, run, workerId and taskId name the rows the message was built from.
Payload(l) ==
    LET a == Attempt(loops[l].attempt)
    IN [backgroundWorkerId |-> WorkerRow(loops[l].worker).friendlyId,
        execution |-> Execution(l),
        attemptId |-> a.id, number |-> a.number, run |-> loops[l].msg,
        workerId |-> loops[l].worker, taskId |-> loops[l].task]

\* await this._sender.send: it resolves, or it throws and the catch block runs up to
\* its await of prisma.$transaction (lines 438-457).
sendToWorker(l) ==
    /\ loops[l].pc = "send"
    /\ \/ /\ sent' = sent \cup {Payload(l)}
          /\ tracer' = Covers(tracer, "dispatches")
          /\ Resume(l, ShortDelay, "sent", "none")
       \/ /\ spanException' = (currentSpan # NULL)
          /\ endSpanInNextIteration' = TRUE
          /\ Goto(l, "rollback", "rollback")
          /\ UNCHANGED <<sent, tracer, perTraceCountdown, lastNewTrace, currentSpan, taskFailures,
                         taskSuccesses>>
    /\ UNCHANGED <<backgroundWorkers, options, limits, handlers, enabled, used, store, queue>>

\* A rollback that clears lockedAt and leaves lockedById.
rollbackAttempt_KeepsLockedBy(l) ==
    /\ loops[l].pc = "rollback"
    /\ runs' = [runs EXCEPT ![loops[l].msg].lockedAt = NULL]
    /\ attempts' = {a \in attempts : a.id # loops[l].attempt}
    /\ Goto(l, "nackFail", "rollback")
    /\ UNCHANGED <<backgroundWorkers, options, limits, handlers, enabled, tracer, window, used, nextAttemptId, queue,
                   sent>>

\* await prisma.$transaction: unlock the run, delete the attempt (lines 457-472).
rollbackAttempt(l) ==
    /\ loops[l].pc = "rollback"
    /\ runs' = [runs EXCEPT ![loops[l].msg].lockedAt = NULL,
                            ![loops[l].msg].lockedById = NULL]
    /\ attempts' = {a \in attempts : a.id # loops[l].attempt}
    /\ Goto(l, "nackFail", "rollback")
    /\ UNCHANGED <<backgroundWorkers, options, limits, handlers, enabled, tracer, window, used, nextAttemptId, queue,
                   sent>>

\* await marqs.nackMessage after the rollback, then the finally block (lines 475-478).
nackAfterRollback(l) ==
    /\ loops[l].pc = "nackFail"
    /\ queue' = qNack(queue, loops[l].msg, NULL)
    /\ Resume(l, ShortDelay, "rollback", "nack")
    /\ UNCHANGED <<backgroundWorkers, options, limits, handlers, enabled, tracer, used, store, sent>>

\* ------------------------------------------------- the completion handler
\* A completion that always acknowledges.
CompletionOp_AlwaysAck(ok, retry) == IF ok \/ retry = retry THEN "ack" ELSE "nack"

\* The queue action taskRunCompleted ends with (lines 121-164).
CompletionOp(ok, retry) == IF ~ok /\ retry # NULL THEN "nack" ELSE "ack"

\* status of the updated attempt (lines 88-113).
CompletionStatus(ok) == IF ok THEN "COMPLETED" ELSE "FAILED"

\* retryConfig after the merge (lines 122-127), its maxAttempts; NoCount for undefined.
\* The parsed configuration is spread over the defaults, so that the maxAttempts a
\* stored configuration carries is the one of the merge.
MergedMaxAttempts(retryConfig) ==
    IF retryConfig.present THEN retryConfig.maxAttempts ELSE NoCount

\* A message that counts the retries against maxAttempts itself.
RetryMessage_OutOfMaxAttempts(number, maxAttempts) ==
    IF maxAttempts # NoCount /\ maxAttempts # 0
    THEN [template |-> "Retry N/M delay", N |-> number, M |-> maxAttempts]
    ELSE [template |-> "Retry #N delay", N |-> number, M |-> NoCount]

\* The message of the retry event (lines 132-134), for execution.attempt.number.
RetryMessage(number, maxAttempts) ==
    IF maxAttempts # NoCount /\ maxAttempts # 0
    THEN [template |-> "Retry N/M delay", N |-> number, M |-> maxAttempts - 1]
    ELSE [template |-> "Retry #N delay", N |-> number, M |-> NoCount]

\* The event recordEvent is called with (lines 131-159): the seed is "retry-" and seed.
RetryEvent(attempt, execution, retry) ==
    LET t == CHOOSE x \in TaskRows : x.id = attempt.backgroundWorkerTaskId
    IN [message |-> RetryMessage(execution.attempt.number,
                                 MergedMaxAttempts(t.retryConfig)),
        spanIdSeed |-> [prefix |-> "retry-", seed |-> attempt.number + 1],
        endTime |-> retry,
        runId |-> attempt.taskRunId]

\* this._flushScheduler.addToBatch(events) of the event repository.
addToBatch(t, events) ==
    IF ~t.recordingEvents THEN t ELSE [t EXCEPT !.events = @ \o events]

\* eventRepository.recordEvent (part_001, lines 87-160).
recordEvent(t, event) == addToBatch(t, <<event>>)

\* A call of a handler past its first await: the await it waits at (the one of
\* recordEvent, or the one of its queue call), the queue call it makes, and for which run.
Handler(kind, attempt, run, op, retry, pc) ==
    [kind |-> kind, attempt |-> attempt, run |-> run, op |-> op, retry |-> retry, pc |-> pc]

\* The await a completion waits at after the counters: the one of recordEvent when it
\* records a retry (line 131), the one of acknowledgeMessage otherwise (line 163).
CompletionAwait(op) == IF op = "nack" THEN "recordEvent" ELSE "queue"

\* taskRunCompleted from its call to its second await (lines 81-160, 163), for a
\* completion of an attempt the worker was sent, with an execution descriptor the worker
\* was sent: await prisma.taskRunAttempt.update, the counters, and the retry event or the
\* call of acknowledgeMessage.
taskRunCompleted(id, ok, retry, execution) ==
    /\ used.completions < limits.completions
    /\ Cardinality(handlers) < MaxHandlers
    /\ \E p \in sent : p.attemptId = id
    /\ \E p \in sent : p.execution = execution
    /\ \E a \in attempts : a.id = id
    /\ used' = [used EXCEPT !.completions = @ + 1]
    /\ tracer' = IF ~ok /\ retry # NULL
                 THEN recordEvent(Covers(tracer, "completions"),
                                  RetryEvent(Attempt(id), execution, retry))
                 ELSE Covers(tracer, "completions")
    /\ attempts' = {IF a.id = id THEN [a EXCEPT !.status = CompletionStatus(ok)] ELSE a :
                      a \in attempts}
    /\ IF CompletionStatus(ok) = "COMPLETED"
       THEN taskSuccesses' = taskSuccesses + 1 /\ UNCHANGED taskFailures
       ELSE taskFailures' = taskFailures + 1 /\ UNCHANGED taskSuccesses
    /\ handlers' = handlers \cup
         {Handler("completion", id, Attempt(id).taskRunId, CompletionOp(ok, retry), retry,
                  CompletionAwait(CompletionOp(ok, retry)))}
    /\ UNCHANGED <<backgroundWorkers, options, limits, enabled, perTraceCountdown, lastNewTrace,
                   currentSpan, spanException, endSpanInNextIteration, loops, runs,
                   nextAttemptId, queue, sent>>

\* await eventRepository.recordEvent of taskRunCompleted resolves (line 131), and the
\* handler calls marqs.nackMessage (line 161).
afterRecordEvent(h) ==
    /\ h \in handlers
    /\ h.kind = "completion"
    /\ h.pc = "recordEvent"
    /\ handlers' = (handlers \ {h}) \cup {[h EXCEPT !.pc = "queue"]}
    /\ UNCHANGED <<backgroundWorkers, options, limits, enabled, tracer, window, loops, used, store,
                   queue, sent>>

\* await marqs.nackMessage / marqs.acknowledgeMessage of taskRunCompleted (lines 161-164);
\* acks counts the queue actions done for the attempt.
completionQueueAction(h) ==
    /\ h \in handlers
    /\ h.kind = "completion"
    /\ h.pc = "queue"
    /\ handlers' = handlers \ {h}
    /\ queue' = IF h.op = "nack" THEN qNack(queue, h.run, h.retry) ELSE qAck(queue, h.run)
    /\ attempts' = {IF a.id = h.attempt THEN [a EXCEPT !.acks = @ + 1] ELSE a : a \in attempts}
    /\ UNCHANGED <<backgroundWorkers, options, limits, enabled, tracer, window, loops, used, runs,
                   nextAttemptId, sent>>

\* taskHeartbeat from its call to the await of the queue call (lines 178-186): await
\* prisma.taskRunAttempt.findUnique; the connection passes no seconds (line 65).
taskHeartbeat(id) ==
    /\ LET found == {a \in attempts : a.id = id}
       IN IF found = {}
          THEN UNCHANGED handlers
          ELSE /\ Cardinality(handlers) < MaxHandlers
               /\ handlers' = handlers \cup
                    {Handler("heartbeat", id, (CHOOSE a \in found : TRUE).taskRunId,
                             "heartbeat", NULL, "queue")}
    /\ UNCHANGED <<backgroundWorkers, options, limits, enabled, tracer, window, loops, used, store,
                   queue, sent>>

\* A heartbeat that acknowledges the message of the attempt's run.
heartbeatMessage_Acknowledges(h) ==
    /\ h \in handlers
    /\ h.kind = "heartbeat"
    /\ handlers' = handlers \ {h}
    /\ queue' = qAck(queue, h.run)
    /\ UNCHANGED <<backgroundWorkers, options, limits, enabled, tracer, window, loops, used, store, sent>>

\* await marqs.heartbeatMessage(taskRunAttempt.taskRunId, seconds) (line 187).
heartbeatMessage(h) ==
    /\ h \in handlers
    /\ h.kind = "heartbeat"
    /\ handlers' = handlers \ {h}
    /\ queue' = qHeartbeat(queue, h.run, defaultHeartbeatSeconds)
    /\ UNCHANGED <<backgroundWorkers, options, limits, enabled, tracer, window, loops, used, store, sent>>

\* The handlers that can wait at an await.
Handlers ==
    {Handler("completion", id, r, "ack", retry, "queue") :
        id \in AttemptIds, r \in Runs, retry \in {NULL, "T1"}}
    \cup {Handler("completion", id, r, "nack", retry, pc) :
        id \in AttemptIds, r \in Runs, retry \in {NULL, "T1"}, pc \in {"recordEvent", "queue"}}
    \cup {Handler("heartbeat", id, r, "heartbeat", NULL, "queue") :
        id \in AttemptIds, r \in Runs}

\* What the worker sends with a failed completion: no retry, or a retry timestamp.
RetryInputs == {NULL, "T1"}

\* The steps of the #doWork chains of a connection that is not closed.
NextLoop ==
    \/ \E f \in FriendlyIds : registerBackgroundWorker(f)
    \/ \E l \in Loops : timerFires(l)
    \/ \E l \in Loops : dequeueMessage(l)
    \/ \E l \in Loops : acknowledgeAndResume(l)
    \/ \E l \in Loops : findTaskRun(l)
    \/ \E l \in Loops : lockTaskRun(l)
    \/ \E l \in Loops : findTaskQueue(l)
    \/ \E l \in Loops : nackMissingQueue(l)
    \/ \E l \in Loops : createAttempt(l)
    \/ \E l \in Loops : sendToWorker(l)
    \/ \E l \in Loops : rollbackAttempt(l)
    \/ \E l \in Loops : nackAfterRollback(l)
    \/ \E l \in Loops : afterDoWorkInternal(l)

\* The connection closes (#handleClose calls stop), and what a chain does then.
NextStop ==
    \/ stop
    \/ \E l \in Loops : nackStopped(l)

\* The steps of the completions the worker sends.
NextCompletion ==
    \/ \E id \in AttemptIds, p \in sent : taskRunCompleted(id, TRUE, NULL, p.execution)
    \/ \E id \in AttemptIds, retry \in RetryInputs, p \in sent :
           taskRunCompleted(id, FALSE, retry, p.execution)
    \/ \E h \in Handlers : afterRecordEvent(h)
    \/ \E h \in Handlers : completionQueueAction(h)

\* The steps of a connection whose worker sends no heartbeat.
NextNoHeartbeat ==
    \/ NextLoop
    \/ NextStop
    \/ NextCompletion

Next ==
    \/ NextNoHeartbeat
    \/ \E id \in AttemptIds : taskHeartbeat(id)
    \/ \E h \in Handlers : heartbeatMessage(h)

\* The consumer of a connection whose worker sends no heartbeat.
Spec == Init /\ [][NextNoHeartbeat]_vars

\* The consumer of a connection whose worker sends heartbeats.
InitHeartbeat == Constructed(maximumItemsPerTrace, FALSE, FALSE, MaxCompletionsStopped)

SpecHeartbeat == InitHeartbeat /\ [][Next]_vars

\* The consumer of a connection that stays open and whose worker may send the completion
\* of an attempt more than once.
InitDuplicates == Constructed(maximumItemsPerTrace, FALSE, FALSE, MaxCompletions)

NextDuplicates ==
    \/ NextLoop
    \/ NextCompletion

SpecDuplicates == InitDuplicates /\ [][NextDuplicates]_vars

\* ------------------------------------------------ failing collaborators
\* The promise an iteration awaits rejects (the queue or the store fails).  Outside the
\* try block of lines 438-478 nothing catches it: #doWorkInternal and #doWork reject,
\* line 251 is skipped and no timer is set.  Inside the catch block the finally block
\* still sets the timer before the rejection leaves the iteration.
collaboratorThrows(l) ==
    /\ loops[l].pc \in {"dequeue", "ack", "findRun", "lock", "findQueue", "nackQueue",
                        "nackStop", "create", "rollback", "nackFail"}
    /\ loops' = [loops EXCEPT
                   ![l].pc = IF loops[l].pc \in {"rollback", "nackFail"} THEN "timer" ELSE "none",
                   ![l].delay = IF loops[l].pc \in {"rollback", "nackFail"} THEN ShortDelay ELSE 0,
                   ![l].outcome = "thrown"]
    /\ UNCHANGED <<backgroundWorkers, options, limits, handlers, enabled, tracer, window, used, store, queue, sent>>

\* The queue call a handler awaits rejects (lines 161, 163, 187): the handler rejects,
\* what it did before stays.
handlerThrows(h) ==
    /\ h \in handlers
    /\ h.pc = "queue"
    /\ handlers' = handlers \ {h}
    /\ UNCHANGED <<backgroundWorkers, options, limits, enabled, tracer, window, loops, used, store,
                   queue, sent>>

NextFail ==
    \/ NextNoHeartbeat
    \/ \E l \in Loops : collaboratorThrows(l)
    \/ \E h \in Handlers : handlerThrows(h)

InitFail == Constructed(maximumItemsPerTrace, FALSE, FALSE, MaxCompletionsStopped)

SpecFail == InitFail /\ [][NextFail]_vars

\* --------------------------------------------- a day with ten versions
\* The consumer of a connection that is never stopped and whose worker stays silent,
\* in an environment where three versions of the day register in any order.
NextVersions ==
    \/ \E f \in FriendlyIdsOfTheDay : registerBackgroundWorker(f)
    \/ \E l \in Loops : timerFires(l)
    \/ \E l \in Loops : dequeueMessage(l)
    \/ \E l \in Loops : acknowledgeAndResume(l)
    \/ \E l \in Loops : findTaskRun(l)
    \/ \E l \in Loops : lockTaskRun(l)
    \/ \E l \in Loops : findTaskQueue(l)
    \/ \E l \in Loops : nackMissingQueue(l)
    \/ \E l \in Loops : createAttempt(l)
    \/ \E l \in Loops : sendToWorker(l)
    \/ \E l \in Loops : rollbackAttempt(l)
    \/ \E l \in Loops : nackAfterRollback(l)
    \/ \E l \in Loops : afterDoWorkInternal(l)

SpecVersions == Init /\ [][NextVersions]_vars

\* ---------------------------------------------------- recorded spans
\* The same consumer, constructed with a short trace window, under a recording tracer.
InitTrace == Constructed(MaxItemsTraced, TRUE, FALSE, MaxCompletionsStopped)

SpecTrace == InitTrace /\ [][NextNoHeartbeat]_vars

\* ---------------------------------------------------- recorded events
\* The consumer of a connection that stays open, under an event repository that records.
InitEvents == Constructed(maximumItemsPerTrace, FALSE, TRUE, MaxCompletions)

\* An event of another caller of the event repository.
OtherEvent(message, runId) ==
    [message |-> [template |-> message, N |-> NoCount, M |-> NoCount],
     spanIdSeed |-> [prefix |-> NULL, seed |-> NoCount],
     endTime |-> NULL,
     runId |-> runId]

OtherEvents == {OtherEvent("other", r) : r \in Runs}

\* The events of other callers in the batch.
Others(t) == {i \in 1..Len(t.events) : t.events[i] \in OtherEvents}

\* EventRepository.insert (part_001, lines 79-81).
insert(event) ==
    /\ Cardinality(Others(tracer)) + 1 <= MaxOtherEvents
    /\ tracer' = addToBatch(tracer, <<event>>)
    /\ UNCHANGED <<backgroundWorkers, options, limits, handlers, enabled, window, loops, used,
                   store, queue, sent>>

\* EventRepository.insertMany (part_001, lines 83-85).
insertMany(events) ==
    /\ Cardinality(Others(tracer)) + Len(events) <= MaxOtherEvents
    /\ tracer' = addToBatch(tracer, events)
    /\ UNCHANGED <<backgroundWorkers, options, limits, handlers, enabled, window, loops, used,
                   store, queue, sent>>

\* EventRepository.traceEvent (part_001, lines 162-277), from the return of the caller's
\* callback: without a runId it throws before it adds an event.
traceEvent(message, runId) ==
    /\ Cardinality(Others(tracer)) + 1 <= MaxOtherEvents
    /\ tracer' = IF runId = NULL THEN tracer
                 ELSE addToBatch(tracer, <<OtherEvent(message, runId)>>)
    /\ UNCHANGED <<backgroundWorkers, options, limits, handlers, enabled, window, loops, used,
                   store, queue, sent>>

\* The steps of a connection that stays open and of the other callers of the event
\* repository.
NextEvents ==
    \/ NextLoop
    \/ NextCompletion
    \/ \E event \in OtherEvents : insert(event)
    \/ \E n \in 0..MaxOtherEvents, event \in OtherEvents : insertMany([i \in 1..n |-> event])
    \/ \E runId \in Runs \cup {NULL} : traceEvent("other", runId)

SpecEvents == InitEvents /\ [][NextEvents]_vars

TypeOK ==
    /\ enabled \in BOOLEAN
    /\ handlers \subseteq Handlers
    /\ Cardinality(handlers) <= MaxHandlers
    /\ \A l \in Loops : loops[l].pc \in
         {"none", "timer", "dequeue", "ack", "findRun", "lock", "findQueue", "nackQueue",
          "nackStop", "create", "send", "rollback", "nackFail"}

\* -------------------------------------------------------------- properties
\* Attempts of a run that are in the executing state.
Executing(r) == {a \in attempts : a.taskRunId = r /\ a.status = "EXECUTING"}

\* A chain whose iteration has ended (its timer is set, or the chain ended after a message).
Ended(l) == loops[l].msg # NULL /\ loops[l].pc \in {"timer", "none"}

\* C1: a run never has more than one attempt in the executing state at a time, also
\* when its message is delivered again after its visibility timeout expired.
C1_AtMostOneExecuting == \A r \in Runs : Cardinality(Executing(r)) <= 1

\* C2: the attempt numbers of a run are exactly 1..k for its k attempts, without gap
\* or duplicate.
C2_AttemptNumbersContiguous ==
    \A r \in Runs :
        LET mine == {a \in attempts : a.taskRunId = r}
        IN {a.number : a \in mine} = 1..Cardinality(mine)

\* C3: a run is locked exactly while a delivery of its message is held: a locked run's
\* message is in flight, and a run whose message was ack'd or nack'd is unlocked.
C3_LockedIffHeld ==
    \A r \in Runs : runs[r].lockedAt # NULL => queue[r].st = "inflight"

\* C4: every delivery gets exactly one terminal queue action: the iteration that gives
\* the message up acts once, an iteration that sends acts not at all, and the
\* completion handler acts at most once for the attempt that was sent.
C4_OneTerminalAction ==
    /\ \A a \in attempts : a.acks <= 1
    /\ \A l \in Loops :
         Ended(l) => loops[l].acted = IF loops[l].outcome = "sent" THEN 0 ELSE 1

\* C5: at most one iteration of the dispatch loop is in flight or scheduled, also after
\* stop() followed by register().
C5_SingleIteration == Cardinality({l \in Loops : loops[l].pc # "none"}) <= 1

\* C6: no failure of a collaborator makes an iteration throw out of the loop.
C6_NoIterationThrows == \A l \in Loops : loops[l].outcome # "thrown"

\* C7: when the send fails, at the end of that iteration the attempt it created is
\* gone and no executing attempt remains for the run, the run is unlocked, the message
\* was nack'd once and the timer of the next iteration is set.  (The exception and the
\* rollover flag are written by the failing step itself, in sendToWorker.)
C7_TransportFailureRollback ==
    \A l \in Loops :
        (loops[l].pc = "timer" /\ loops[l].outcome = "rollback") =>
            /\ ~\E a \in attempts : a.id = loops[l].attempt
            /\ Executing(loops[l].msg) = {}
            /\ runs[loops[l].msg].lockedAt = NULL
            /\ runs[loops[l].msg].lockedById = NULL
            /\ loops[l].qop = "nack"
            /\ loops[l].acted = 1
            /\ loops[l].delay = ShortDelay

\* C8: a completion sets the attempt to COMPLETED when ok and to FAILED otherwise, and
\* then does one queue action: a nack that delays the message until retry.timestamp
\* when the completion failed and carries a retry, an ack in every other case.
C8_CompletionQueueAction ==
    /\ [][\A id \in AttemptIds, ok \in BOOLEAN, retry \in RetryInputs, p \in sent :
            taskRunCompleted(id, ok, retry, p.execution) =>
                /\ \E a \in attempts' :
                     /\ a.id = id
                     /\ a.status = (IF ok THEN "COMPLETED" ELSE "FAILED")
                     /\ a.acks = Attempt(id).acks
                /\ queue' = queue
                /\ \E h \in handlers' :
                     /\ handlers' = handlers \cup {h}
                     /\ h.kind = "completion" /\ h.attempt = id /\ h.retry = retry
                     /\ h.run = Attempt(id).taskRunId
                     /\ h.op = (IF ~ok /\ retry # NULL THEN "nack" ELSE "ack")]_vars
    /\ [][\A h \in handlers :
            afterRecordEvent(h) =>
                /\ h.op = "nack"
                /\ UNCHANGED <<queue, attempts>>
                /\ \E g \in handlers' :
                     /\ handlers' = (handlers \ {h}) \cup {g}
                     /\ g.op = h.op /\ g.run = h.run /\ g.retry = h.retry
                     /\ g.attempt = h.attempt]_vars
    /\ [][\A h \in handlers :
            completionQueueAction(h) =>
                /\ handlers' = handlers \ {h}
                /\ \A a \in attempts :
                     a.id = h.attempt =>
                         \E b \in attempts' :
                             b.id = a.id /\ b.status = a.status /\ b.acks = a.acks + 1
                /\ IF h.op = "nack"
                   THEN /\ h.retry # NULL
                        /\ queue[h.run].st # "gone" =>
                               queue'[h.run].st = "delayed" /\ queue'[h.run].at = h.retry
                   ELSE queue'[h.run].st = "gone"]_vars

C8_Witness ==
    \E a \in attempts :
        /\ a.status = "FAILED"
        /\ a.acks = 1
        /\ queue[a.taskRunId].st = "delayed"
        /\ queue[a.taskRunId].at = "T1"

\* C9: a message that cannot be parsed, whose run is missing, for which no worker is
\* registered or whose worker has no matching task is ack'd and never delivered again;
\* the iteration that met it created no attempt, locked no run, sent nothing, and set
\* the timer of the next iteration.
C9_PoisonMessageAcked ==
    /\ [](\A l \in Loops :
            (loops[l].pc = "timer"
               /\ loops[l].outcome \in {"parse", "norun", "noworker", "notask"}) =>
                /\ loops[l].qop = "ack"
                /\ loops[l].acted = 1
                /\ queue[loops[l].msg].st = "gone"
                /\ loops[l].attempt = 0
                /\ ~loops[l].locked
                /\ loops[l].delay = ShortDelay)
    /\ [](\A r \in Runs :
            (queue[r].data.type # "EXECUTE" \/ ~runs[r].exists) =>
                /\ runs[r].lockedAt = NULL
                /\ ~\E a \in attempts : a.taskRunId = r
                /\ ~\E p \in sent : p.run = r)
    /\ [](\A a \in attempts :
            /\ \E i \in 1..Len(backgroundWorkers) : backgroundWorkers[i] = a.backgroundWorkerId
            /\ \E t \in TaskRows :
                 /\ t.id = a.backgroundWorkerTaskId
                 /\ t.workerId = a.backgroundWorkerId
                 /\ t.slug = runs[a.taskRunId].taskIdentifier)
    /\ [][\A r \in Runs : queue[r].st = "gone" => queue'[r].st = "gone"]_vars

C9_Witness ==
    \E l \in Loops :
        /\ loops[l].pc = "timer"
        /\ loops[l].outcome = "notask"
        /\ loops[l].qop = "ack"
        /\ queue[loops[l].msg].st = "gone"

\* C10: a run pinned to a version is dispatched to exactly that worker, and is not
\* dispatched when that worker is not registered; a run that is not pinned is
\* dispatched to the registered worker of the greatest version at its iteration.
C10_WorkerSelection ==
    /\ [](\A p \in sent :
            runs[p.run].lockedToVersionId # NULL =>
                /\ p.workerId = runs[p.run].lockedToVersionId
                /\ p.backgroundWorkerId = WorkerRow(p.workerId).friendlyId)
    /\ [](\A a \in attempts :
            runs[a.taskRunId].lockedToVersionId # NULL =>
                a.backgroundWorkerId = runs[a.taskRunId].lockedToVersionId)
    /\ [][\A l \in Loops :
            loops[l].pc = "findRun" =>
                LET pin == runs[loops[l].msg].lockedToVersionId
                    registered == {backgroundWorkers[i] : i \in 1..Len(backgroundWorkers)}
                IN IF loops'[l].pc = "lock"
                   THEN /\ loops'[l].worker \in registered
                        /\ IF pin # NULL
                           THEN loops'[l].worker = pin
                           ELSE \A v \in registered :
                                    ~StringGreater(WorkerRow(v).version,
                                                   WorkerRow(loops'[l].worker).version)
                   ELSE pin # NULL /\ pin \notin registered => loops'[l].pc \in {"findRun", "ack"}]_vars
    /\ [][\A l \in Loops :
            /\ (loops[l].pc \in {"lock", "findQueue", "create"}
                  /\ loops'[l].pc \in {"findQueue", "create", "send"}) =>
                   loops'[l].worker = loops[l].worker
            /\ (loops[l].pc = "send" /\ sent' # sent /\ loops'[l].pc = "timer") =>
                   \E p \in sent' \ sent :
                       /\ p.workerId = loops[l].worker
                       /\ p.run = loops[l].msg
                       /\ p.backgroundWorkerId = WorkerRow(loops[l].worker).friendlyId]_vars

C10_Witness ==
    \E p \in sent :
        /\ runs[p.run].lockedToVersionId = "w1"
        /\ p.workerId = "w1"
        /\ getLatestBackgroundWorker(backgroundWorkers) = "w2"

\* a > b in the lexicographic order of code units: a is greater at the first position
\* where the two differ, or b is a proper prefix of a.
LexGreater(a, b) ==
    \E i \in 1..Len(a) :
        /\ \A j \in 1..(i - 1) : j <= Len(b) /\ a[j] = b[j]
        /\ i > Len(b) \/ a[i] > b[i]

\* The registered worker ids.
Registered == {backgroundWorkers[i] : i \in 1..Len(backgroundWorkers)}

\* C11: latest() is undefined for the empty registry and otherwise a registered worker
\* than whose version no registered version is lexicographically greater, whatever the
\* order of registration.
C11_LatestIsLexicographicMax ==
    LET latest == getLatestBackgroundWorker(backgroundWorkers)
    IN IF Len(backgroundWorkers) = 0
       THEN latest = NULL
       ELSE /\ latest \in Registered
            /\ \A v \in Registered :
                 ~LexGreater(WorkerRow(v).version, WorkerRow(latest).version)

C11_Witness ==
    /\ backgroundWorkers = <<"w2", "w3", "w1">>
    /\ getLatestBackgroundWorker(backgroundWorkers) = "w2"

\* C12: with 20240101.2 and 20240101.10 both registered, 20240101.10 is the latest, and
\* no run that is not pinned is sent to 20240101.2 when 20240101.10 registered before it.
C12_NumericVersionOrder ==
    ({"w2", "w3"} \subseteq Registered) =>
        /\ getLatestBackgroundWorker(backgroundWorkers) = "w3"
        /\ \A p \in sent :
             (runs[p.run].lockedToVersionId = NULL /\ p.workerId = "w2") =>
                 \E i, j \in 1..Len(backgroundWorkers) :
                     i < j /\ backgroundWorkers[i] = "w2" /\ backgroundWorkers[j] = "w3"

\* C13: stop() touches no iteration; an iteration that reaches the abort check while
\* the consumer is disabled nacks the message, creates no attempt, sends nothing and
\* sets no timer; a timer that fires while the consumer is disabled dequeues nothing.
C13_StopEndsTheLoop ==
    /\ [][(enabled /\ ~enabled') =>
              /\ loops' = loops
              /\ queue' = queue
              /\ attempts' = attempts
              /\ sent' = sent]_vars
    /\ [][\A l \in Loops :
            /\ (loops[l].pc = "findQueue" /\ loops'[l].pc # "findQueue" /\ ~enabled
                  /\ \E q \in TaskQueueRows : q.name = runs[loops[l].msg].queue) =>
                   loops'[l].pc = "nackStop"
            /\ (loops[l].pc = "nackStop" /\ loops'[l].pc # "nackStop") =>
                   /\ loops'[l].pc = "none"
                   /\ loops'[l].attempt = 0
                   /\ loops'[l].acted = 1
                   /\ queue[loops[l].msg].st = "inflight" =>
                          queue'[loops[l].msg].st = "visible"
                   /\ attempts' = attempts
                   /\ sent' = sent
            /\ (loops[l].pc = "timer" /\ loops'[l].pc # "timer" /\ ~enabled) =>
                   /\ loops'[l] = NoLoop
                   /\ queue' = queue]_vars

C13_Witness ==
    \E l \in Loops :
        /\ ~enabled
        /\ loops[l].pc = "none"
        /\ loops[l].outcome = "stopped"
        /\ loops[l].qop = "nack"
        /\ queue[loops[l].msg].st = "visible"
        /\ attempts = {}
        /\ sent = {}

\* C14: while no worker is registered the consumer is disabled, idle and has dequeued
\* nothing; the registry changes only by appending a found worker under its id; a chain
\* starts only in a step that turns the enabled flag from false to true, and then
\* exactly one starts; a register while enabled starts none.
C14_RegisterEnablesOnce ==
    /\ [](Len(backgroundWorkers) = 0 =>
            /\ ~enabled
            /\ \A l \in Loops : loops[l] = NoLoop
            /\ \A r \in Runs : queue[r].st = "visible")
    /\ [][backgroundWorkers' # backgroundWorkers =>
            \E w \in WorkerRows :
                /\ w.friendlyId \in FriendlyIdsOfTheDay
                /\ w.id \notin Registered
                /\ backgroundWorkers' = Append(backgroundWorkers, w.id)
                /\ enabled'
                /\ enabled => loops' = loops]_vars
    /\ [][LET started == {l \in Loops : loops[l].pc = "none" /\ loops'[l].pc # "none"}
          IN /\ started # {} => ~enabled /\ enabled'
             /\ (~enabled /\ enabled') =>
                    /\ Cardinality(started) = 1
                    /\ \A l \in started : loops'[l].pc = "dequeue"
                    /\ \A l \in Loops \ started : loops'[l] = loops[l]]_vars

C14_Witness ==
    /\ Len(backgroundWorkers) = 2
    /\ enabled
    /\ used.stops = 0
    /\ Cardinality({l \in Loops : loops[l].pc # "none"}) = 1

\* What the check at the start of an iteration does, for the values the fields hold when
\* it runs and for whether the trace timeout has passed.
RolloverCheck(countdown, last, failures, successes, elapsed) ==
    LET due == \/ countdown = 0
               \/ elapsed
               \/ currentSpan = NULL
               \/ endSpanInNextIteration
    IN IF due
       THEN /\ IF currentSpan # NULL
               THEN /\ tracer'.ended.successes = successes
                    /\ tracer'.ended.failures = failures
                    /\ tracer'.open = tracer.open
               ELSE /\ tracer'.ended = tracer.ended
                    /\ tracer'.open = tracer.open + 1
            /\ currentSpan' # NULL
            /\ ~spanException'
            /\ tracer'.dispatches = 0
            /\ tracer'.completions = 0
            /\ perTraceCountdown' = options.maximumItemsPerTrace
            /\ lastNewTrace' = "date"
            /\ taskSuccesses' = 0
            /\ taskFailures' = 0
            /\ ~endSpanInNextIteration'
       ELSE /\ perTraceCountdown' = countdown
            /\ lastNewTrace' = last
            /\ taskSuccesses' = successes
            /\ taskFailures' = failures
            /\ UNCHANGED <<currentSpan, spanException, endSpanInNextIteration, tracer>>

\* C15: the check at the start of an iteration rolls the window over exactly when the
\* countdown is 0, the trace timeout has passed, no span is open or the rollover is
\* forced; then the open span gets the successes and failures and is ended, a new span
\* is started and countdown, opening time, counters and flag are reset; otherwise the
\* check changes nothing of the window.
C15_RolloverExactlyWhenDue ==
    [][\A l \in Loops, e \in BOOLEAN :
          /\ (loops[l].pc = "timer" /\ enabled
                /\ doWork(l, enabled, perTraceCountdown, lastNewTrace, taskFailures,
                          taskSuccesses, e)) =>
                 RolloverCheck(perTraceCountdown, lastNewTrace, taskFailures,
                               taskSuccesses, e)
          /\ (~enabled /\ enabled' /\ ~e /\ FreeSlot(l)
                /\ doWork(l, TRUE, options.maximumItemsPerTrace, "date", 0, 0, e)) =>
                 RolloverCheck(options.maximumItemsPerTrace, "date", 0, 0, e)]_vars

C15_Witness ==
    /\ tracer.open = 1
    /\ tracer.ended.successes = 1
    /\ tracer.ended.failures = 0
    /\ currentSpan # NULL
    /\ taskSuccesses = 0

\* C16: no span covers more sends than maximumItemsPerTrace, neither the current span
\* nor the one that ended last.
C16_WindowHoldsAtMostMaxItems ==
    /\ tracer.dispatches <= options.maximumItemsPerTrace
    /\ tracer.ended.dispatches <= options.maximumItemsPerTrace

\* C17: the successes and failures a span is given when it ends sum to the number of
\* calls of taskRunCompleted made while it was the current span.
C17_CountersMatchCompletions ==
    tracer.ended # NoSpan =>
        tracer.ended.successes + tracer.ended.failures = tracer.ended.completions

\* C18: never more than one span is started and not ended, a span is open exactly when
\* the consumer holds one, and every send happens while one span is open and is counted
\* once, in that span.
C18_OneOpenSpan ==
    /\ [](tracer.open <= 1 /\ (tracer.open = 1 <=> currentSpan # NULL))
    /\ [][sent' # sent =>
            /\ tracer.open = 1
            /\ tracer'.open = 1
            /\ tracer'.dispatches = tracer.dispatches + 1
            /\ tracer'.ended = tracer.ended]_vars
    /\ [][tracer'.open > tracer.open => tracer.open = 0]_vars

C18_Witness ==
    /\ tracer.open = 1
    /\ tracer.ended # NoSpan
    /\ tracer.ended.dispatches = 1
    /\ tracer.dispatches = 1

\* C19: a heartbeat for an attempt id without a row changes nothing; a heartbeat for an
\* existing attempt sets the visibility timeout of its run's message in flight to 60
\* seconds and changes nothing else: the message is neither ack'd nor nack'd, no row of
\* a run or an attempt changes.
C19_HeartbeatOnlyExtends ==
    /\ [][\A id \in AttemptIds :
            taskHeartbeat(id) =>
                /\ UNCHANGED <<backgroundWorkers, options, limits, enabled, window, loops, used,
                               runs, attempts, nextAttemptId, queue, sent, tracer>>
                /\ IF ~\E a \in attempts : a.id = id
                   THEN handlers' = handlers
                   ELSE handlers' = handlers \cup
                            {Handler("heartbeat", id, Attempt(id).taskRunId, "heartbeat", NULL,
                                     "queue")}]_vars
    /\ [][\A h \in handlers :
            heartbeatMessage(h) =>
                /\ UNCHANGED <<backgroundWorkers, options, limits, enabled, window, loops, used,
                               runs, attempts, nextAttemptId, sent, tracer>>
                /\ \A m \in Runs \ {h.run} : queue'[m] = queue[m]
                /\ queue'[h.run].st = queue[h.run].st
                /\ queue'[h.run].at = queue[h.run].at
                /\ queue'[h.run].data = queue[h.run].data
                /\ queue'[h.run].timeout =
                       IF queue[h.run].st = "inflight" THEN 60 ELSE queue[h.run].timeout]_vars

C19_Witness ==
    \E a \in attempts :
        /\ a.status = "EXECUTING"
        /\ queue[a.taskRunId].st = "inflight"
        /\ queue[a.taskRunId].timeout = 60

\* C20: every identifier of a message sent to the worker is read from a friendly column
\* (a friendlyId, or the slug of a task), never from the id column of a row.
C20_OnlyFriendlyIdsSent ==
    \A p \in sent :
        /\ p.backgroundWorkerId \in {w.friendlyId : w \in WorkerRows}
        /\ \A x \in {p.execution.task.id, p.execution.run.id, p.execution.queue.id,
                     p.execution.attempt.backgroundWorkerId,
                     p.execution.attempt.backgroundWorkerTaskId,
                     p.execution.environment.id, p.execution.organization.id,
                     p.execution.project.id} :
               x.column # "id"
        /\ p.execution.attempt.id.column # "id"

\* C21: an iteration that finds no TaskQueue row for the run's queue name nacks the
\* message without a timestamp, so that it is visible again at once, creates no attempt,
\* sends nothing, and sets the timer of the next iteration to the long delay.
C21_MissingQueueNacked ==
    /\ [][\A l \in Loops :
            /\ (loops[l].pc = "findQueue" /\ loops'[l].pc # "findQueue"
                  /\ ~\E q \in TaskQueueRows : q.name = runs[loops[l].msg].queue) =>
                   /\ loops'[l].pc = "nackQueue"
                   /\ UNCHANGED <<queue, attempts, sent>>
            /\ (loops[l].pc = "nackQueue" /\ loops'[l].pc # "nackQueue") =>
                   /\ loops'[l].pc = "timer"
                   /\ loops'[l].delay = LongDelay
                   /\ loops'[l].delay # ShortDelay
                   /\ loops'[l].qop = "nack"
                   /\ loops'[l].acted = 1
                   /\ loops'[l].attempt = 0
                   /\ queue'[loops[l].msg].st = "visible"
                   /\ queue'[loops[l].msg].at = NULL
                   /\ UNCHANGED <<attempts, sent>>]_vars
    /\ [](\A r \in Runs :
            (~\E q \in TaskQueueRows : q.name = runs[r].queue) =>
                /\ ~\E a \in attempts : a.taskRunId = r
                /\ ~\E p \in sent : p.run = r
                /\ queue[r].st # "gone")

C21_Witness ==
    \E l \in Loops :
        /\ loops[l].pc = "timer"
        /\ loops[l].outcome = "noqueue"
        /\ loops[l].delay = LongDelay
        /\ loops[l].qop = "nack"
        /\ queue[loops[l].msg].st = "visible"
        /\ runs[loops[l].msg].lockedAt # NULL
        /\ attempts = {}
        /\ sent = {}

\* C22: in every state a run's lockedAt is null exactly when its lockedById is null, every
\* step writes both or neither, and no step changes a run's lockedToVersionId.
C22_LockFieldsTogether ==
    /\ [](\A r \in Runs : (runs[r].lockedAt = NULL) <=> (runs[r].lockedById = NULL))
    /\ [][\A r \in Runs :
            /\ runs'[r].lockedToVersionId = runs[r].lockedToVersionId
            /\ (runs'[r].lockedAt = NULL) <=> (runs'[r].lockedById = NULL)
            /\ (runs'[r] # runs[r]) =>
                   \E l \in Loops :
                       /\ loops[l].msg = r
                       /\ \/ /\ loops[l].pc = "lock"
                             /\ runs'[r].lockedAt # NULL
                             /\ runs'[r].lockedById = loops[l].task
                          \/ /\ loops[l].pc = "rollback"
                             /\ runs'[r].lockedAt = NULL
                             /\ runs'[r].lockedById = NULL]_vars

C22_Witness ==
    \E l \in Loops :
        /\ loops[l].pc = "timer"
        /\ loops[l].outcome = "rollback"
        /\ runs[loops[l].msg].lockedAt = NULL
        /\ runs[loops[l].msg].lockedById = NULL
        /\ runs[loops[l].msg].lockedToVersionId = "w1"
        /\ \E a \in attempts : a.taskRunId = loops[l].msg /\ a.status # "EXECUTING"

\* C23: a failed completion with a retry, of an attempt with number N, records exactly
\* one event: endTime is the retry's timestamp, the seed is "retry-" and N + 1, the message
\* is "Retry N/M delay" with M = maxAttempts - 1 when maxAttempts is known and
\* "Retry #N delay" otherwise, with the same N as the seed's; every other completion
\* records none.
C23_RetryEventRecorded ==
    [][\A id \in AttemptIds, ok \in BOOLEAN, retry \in RetryInputs, p \in sent :
          taskRunCompleted(id, ok, retry, p.execution) =>
              IF ok \/ retry = NULL
              THEN tracer'.events = tracer.events
              ELSE LET a == Attempt(id)
                       t == CHOOSE x \in TaskRows : x.id = a.backgroundWorkerTaskId
                       e == tracer'.events[Len(tracer'.events)]
                   IN /\ tracer'.events = Append(tracer.events, e)
                      /\ e.endTime = retry
                      /\ e.runId = a.taskRunId
                      /\ e.spanIdSeed = [prefix |-> "retry-", seed |-> a.number + 1]
                      /\ e.message.N = a.number
                      /\ IF t.retryConfig.present
                         THEN /\ e.message.template = "Retry N/M delay"
                              /\ e.message.M = t.retryConfig.maxAttempts - 1
                         ELSE e.message.template = "Retry #N delay"]_vars

\* C24: an attempt is created only for a run that is locked by the matched task, and a
\* message is sent only for an attempt that was created; at the step that sends a message
\* the run is locked by the matched task and the attempt of the descriptor exists, is
\* EXECUTING and has the descriptor's number; the run stays locked, and the iteration
\* that sent neither acks nor nacks.
C24_LockCreateSend ==
    /\ [][\A l \in Loops :
            /\ (loops[l].pc = "create" /\ loops'[l].pc = "send") =>
                   /\ loops[l].locked
                   /\ runs[loops[l].msg].lockedAt # NULL
                   /\ runs[loops[l].msg].lockedById = loops[l].task
                   /\ \E a \in attempts' \ attempts :
                        a.id = loops'[l].attempt /\ a.taskRunId = loops[l].msg
            /\ (loops[l].pc = "send" /\ sent' # sent) =>
                   \E p \in sent' \ sent :
                       /\ sent' = sent \cup {p}
                       /\ p.run = loops[l].msg
                       /\ runs'[p.run].lockedAt # NULL
                       /\ runs'[p.run].lockedById = p.taskId
                       /\ p.taskId = loops[l].task
                       /\ \E a \in attempts' :
                            /\ a.id = p.attemptId
                            /\ p.execution.attempt.id = Column("friendlyId", a.id)
                            /\ a.taskRunId = p.run
                            /\ a.status = "EXECUTING"
                            /\ a.number = p.execution.attempt.number
                       /\ loops'[l].pc = "timer"
                       /\ loops'[l].acted = 0
                       /\ loops'[l].qop = "none"
                       /\ queue' = queue]_vars
    /\ [][sent' # sent => \E l \in Loops : loops[l].pc = "send"]_vars
    /\ [][{a.id : a \in attempts'} \ {a.id : a \in attempts} # {} =>
            \E l \in Loops : loops[l].pc = "create"]_vars

\* C25: the countdown of the window counts sends: the end of an iteration that sent a
\* message takes one off it, the end of an iteration that sent none (no message, a
\* message given up, no queue row, the consumer stopped) leaves it as it is, and while a
\* span is open the countdown is maximumItemsPerTrace less the sends of the window.
C25_CountdownCountsDispatches ==
    /\ [][\A l \in Loops :
            afterDoWorkInternal(l) =>
                IF loops[l].outcome = "sent"
                THEN perTraceCountdown' = perTraceCountdown - 1
                ELSE perTraceCountdown' = perTraceCountdown]_vars
    /\ [](currentSpan # NULL =>
            perTraceCountdown = options.maximumItemsPerTrace - tracer.dispatches
                + Cardinality({l \in Returned : loops[l].outcome = "sent"}))

\* C26: while the consumer is enabled or an iteration runs, the registry is not empty and
\* latest() is defined; the registry never loses a worker; and an iteration gives a
\* message up for lack of a worker only when the run is pinned to a version that is not
\* registered.
C26_RegistryNonEmptyInLoop ==
    /\ []((enabled \/ \E l \in Loops : loops[l].pc # "none") =>
            /\ Len(backgroundWorkers) > 0
            /\ getLatestBackgroundWorker(backgroundWorkers) # NULL)
    /\ [][/\ Len(backgroundWorkers') >= Len(backgroundWorkers)
          /\ \A i \in 1..Len(backgroundWorkers) : backgroundWorkers'[i] = backgroundWorkers[i]]_vars
    /\ [][\A l \in Loops :
            (loops[l].pc = "findRun" /\ loops'[l].outcome = "noworker") =>
                /\ runs[loops[l].msg].lockedToVersionId # NULL
                /\ runs[loops[l].msg].lockedToVersionId \notin Registered]_vars

C26_Witness ==
    \E l \in Loops :
        /\ loops[l].pc = "timer"
        /\ loops[l].outcome = "noworker"
        /\ loops[l].qop = "ack"
        /\ runs[loops[l].msg].lockedToVersionId = "w1"
        /\ backgroundWorkers = <<"w2">>

\* C27: the status of an attempt changes only from EXECUTING, to COMPLETED or to FAILED;
\* no step changes the status of an attempt that is COMPLETED or FAILED, and the message
\* is ack'd or nack'd at most once on behalf of an attempt, after it left EXECUTING.
C27_AttemptStatusMonotone ==
    /\ [][\A a \in attempts, b \in attempts' :
            (b.id = a.id /\ b.status # a.status) =>
                a.status = "EXECUTING" /\ b.status \in {"COMPLETED", "FAILED"}]_vars
    /\ [](\A a \in attempts : a.status = "EXECUTING" => a.acks = 0)
    /\ [](\A a \in attempts : a.acks <= 1)

\* C28: a completion of an attempt of a run, handled while a later attempt of that run is
\* EXECUTING and holds the run's message in flight, neither acks nor nacks that message.
C28_CompletionOfCurrentDelivery ==
    [][\A h \in handlers :
          (/\ completionQueueAction(h)
           /\ queue[h.run].st = "inflight"
           /\ \E newer \in attempts :
                /\ newer.taskRunId = h.run
                /\ newer.id > h.attempt
                /\ newer.status = "EXECUTING") =>
              queue'[h.run] = queue[h.run]]_vars

\* C29: while the consumer is enabled, a chain of #doWork is alive: an iteration is in
\* flight or the timer of the next one is set (so that, the steps of the chain being
\* taken, a visible message is dequeued in the end; also after stop() and register()).
C29_EnabledLoopAlive ==
    enabled => \E l \in Loops : loops[l].pc # "none"

\* C30: once the consumer is stopped and its last iteration has finished, no span is open:
\* every span that was started has been ended.
C30_NoSpanLeftOpen ==
    (~enabled /\ \A l \in Loops : loops[l].pc = "none") => tracer.open = 0
====
